---- MODULE Spec2Model ----
(***************************************************************************)
(* Reflection analysis of libredex/ReflectionAnalysis.cpp: the abstract    *)
(* objects, the constant lattice and its environments, the per-opcode      *)
(* transfer function, the parameter seeding, the fixpoint over the CFG,    *)
(* the replay pass that fills the per-instruction cache, and the queries.  *)
(*                                                                         *)
(* A DexString is the sequence of its tokens, where "." and "/" are the    *)
(* separator characters and every other token stands for the characters    *)
(* between two separators. A DexType is its descriptor, tokenised the same *)
(* way. Interned pointers are compared by content.                         *)
(***************************************************************************)
EXTENDS Integers, Sequences, FiniteSets, TLC

VARIABLES
    tPc,            \* transfer harness: "input" | "analyzed" | "seeded"
    tInsn,          \* transfer harness: the instruction
    tEnv,           \* transfer harness: the environment before the instruction
    tCtx,           \* transfer harness: the seeding cursor before the instruction
    tOut,           \* transfer harness: the environment after the instruction
    pc,             \* ReflectionAnalysis: position in constructor / query session
    method,         \* m_dex_method
    has_analyzer,   \* m_analyzer != nullptr
    init_state,     \* Analyzer::run: init_state
    entry_states,   \* fixpoint engine: entry state of every block
    exit_states,    \* fixpoint engine: exit state of every block
    worklist,       \* fixpoint engine: pending blocks
    m_environments, \* Analyzer::m_environments
    replayed,       \* populate_environments: blocks already replayed
    query           \* the last query and what it returned

vars == <<tPc, tInsn, tEnv, tCtx, tOut, pc, method, has_analyzer, init_state,
          entry_states, exit_states, worklist, m_environments, replayed, query>>

-----------------------------------------------------------------------------
(* Bounds *)

\* Number of virtual registers of a method (registers_size).
NumRegs == 2

-----------------------------------------------------------------------------
(* Registers *)

\* std::numeric_limits<register_t>::max(), an index no method register has;
\* the largest integer TLC represents stands for it.
RESULT_REGISTER == 2147483647

Regs == 0 .. (NumRegs - 1)

AllRegs == Regs \cup {RESULT_REGISTER}

NoReg == -1

-----------------------------------------------------------------------------
(* Types and strings *)

NULL == <<"nullptr">>

ObjectType == <<"L", "java", "/", "lang", "/", "Object", ";">>

ClassType == <<"L", "java", "/", "lang", "/", "Class", ";">>

StringType == <<"L", "java", "/", "lang", "/", "String", ";">>

MethodType == <<"L", "java", "/", "lang", "/", "reflect", "/", "Method", ";">>

FieldType == <<"L", "java", "/", "lang", "/", "reflect", "/", "Field", ";">>

ConstructorType ==
    <<"L", "java", "/", "lang", "/", "reflect", "/", "Constructor", ";">>

FooType == <<"L", "Foo", ";">>

IntType == <<"I">>

LongType == <<"J">>

VoidType == <<"V">>

ArrayOf(t) == <<"[">> \o t

is_void(t) == t = VoidType

is_object(t) == t[1] \in {"L", "["}

is_array(t) == t[1] = "["

get_array_component_type(t) == Tail(t)

get_class_type == ClassType

get_string_type == StringType

\* JavaNameUtil::external_to_internal: '.' becomes '/', wrapped in 'L' ... ';'.
external_to_internal(s) ==
    <<"L">> \o [i \in 1 .. Len(s) |-> IF s[i] = "." THEN "/" ELSE s[i]] \o <<";">>

StrBar == <<"com", ".", "foo", ".", "Bar">>

StrDoIt == <<"doIt">>

StrInit == <<"<init>">>

-----------------------------------------------------------------------------
(* reflection::AbstractObject *)

ObjOBJECT(t) ==
    [kind |-> "OBJECT", dex_type |-> t, dex_string |-> NULL,
     cls_source |-> "NOT_APPLICABLE"]

ObjSTRING(s) ==
    [kind |-> "STRING", dex_type |-> NULL, dex_string |-> s,
     cls_source |-> "NOT_APPLICABLE"]

ObjCLASS(t, src) ==
    [kind |-> "CLASS", dex_type |-> t, dex_string |-> NULL, cls_source |-> src]

ObjElement(k, t, s) ==
    [kind |-> k, dex_type |-> t, dex_string |-> s,
     cls_source |-> "NOT_APPLICABLE"]

\* boost::none
None ==
    [kind |-> "none", dex_type |-> NULL, dex_string |-> NULL,
     cls_source |-> "NOT_APPLICABLE"]

\* is_reflection_output without the test of the Class object's source.
is_reflection_output_any_class(obj) ==
    IF obj.kind = "FIELD" \/ obj.kind = "METHOD"
    THEN TRUE
    ELSE obj.kind = "CLASS"

is_reflection_output(obj) ==
    IF obj.kind = "FIELD" \/ obj.kind = "METHOD"
    THEN TRUE
    ELSE obj.kind = "CLASS" /\ obj.cls_source = "REFLECTION"

\* operator==(const AbstractObject&, const AbstractObject&)
ObjEq(x, y) ==
    IF x.kind # y.kind
    THEN FALSE
    ELSE CASE x.kind \in {"OBJECT", "CLASS"} ->
                  x.dex_type = y.dex_type /\ x.cls_source = y.cls_source
           [] x.kind = "STRING" -> x.dex_string = y.dex_string
           [] x.kind \in {"FIELD", "METHOD"} ->
                  x.dex_type = y.dex_type /\ x.dex_string = y.dex_string
           [] OTHER -> TRUE

-----------------------------------------------------------------------------
(* AbstractObjectDomain = ConstantAbstractDomain<AbstractObject> *)

Bottom == [kind |-> "Bottom", obj |-> None]

Top == [kind |-> "Top", obj |-> None]

Constant(o) == [kind |-> "Value", obj |-> o]

get_constant(d) == IF d.kind = "Value" THEN d.obj ELSE None

DomJoin(a, b) ==
    CASE a.kind = "Bottom" -> b
      [] b.kind = "Bottom" -> a
      [] a.kind = "Top" \/ b.kind = "Top" -> Top
      [] OTHER -> IF ObjEq(a.obj, b.obj) THEN a ELSE Top

DomLeq(a, b) ==
    CASE a.kind = "Bottom" -> TRUE
      [] b.kind = "Top" -> TRUE
      [] a.kind = "Value" /\ b.kind = "Value" -> ObjEq(a.obj, b.obj)
      [] OTHER -> FALSE

-----------------------------------------------------------------------------
(* AbstractObjectEnvironment = PatriciaTreeMapAbstractEnvironment *)

EnvTop == [r \in AllRegs |-> Top]

EnvBottom == [r \in AllRegs |-> Bottom]

EnvIsBottom(env) == env = EnvBottom

get(env, r) == env[r]

\* Bottom is strict: a bottom environment stays bottom, and binding a
\* register to Bottom makes the whole environment bottom.
set(env, r, d) ==
    IF EnvIsBottom(env) THEN env
    ELSE IF d.kind = "Bottom" THEN EnvBottom
    ELSE [env EXCEPT ![r] = d]

EnvJoin(a, b) == [r \in AllRegs |-> DomJoin(a[r], b[r])]

EnvLeq(a, b) == \A r \in AllRegs : DomLeq(a[r], b[r])

-----------------------------------------------------------------------------
(* DexMethodRef and the reflection API handles interned by the Analyzer *)

MethodRef(cls, name, args, rtype) ==
    [cls |-> cls, name |-> name, args |-> args, rtype |-> rtype]

NoMethod == MethodRef(NULL, "", <<>>, NULL)

m_get_class == MethodRef(ObjectType, "getClass", <<>>, ClassType)

m_get_method ==
    MethodRef(ClassType, "getMethod", <<StringType, ArrayOf(ClassType)>>,
              MethodType)

m_get_declared_method ==
    MethodRef(ClassType, "getDeclaredMethod",
              <<StringType, ArrayOf(ClassType)>>, MethodType)

m_get_constructor ==
    MethodRef(ClassType, "getConstructor", <<ArrayOf(ClassType)>>,
              ConstructorType)

m_get_declared_constructor ==
    MethodRef(ClassType, "getDeclaredConstructor", <<ArrayOf(ClassType)>>,
              ConstructorType)

m_get_constructors ==
    MethodRef(ClassType, "getConstructors", <<>>, ArrayOf(ConstructorType))

m_get_declared_constructors ==
    MethodRef(ClassType, "getDeclaredConstructors", <<>>,
              ArrayOf(ConstructorType))

m_ctor_lookup_vmethods ==
    {m_get_constructor, m_get_declared_constructor, m_get_constructors,
     m_get_declared_constructors}

m_get_field == MethodRef(ClassType, "getField", <<StringType>>, FieldType)

m_get_declared_field ==
    MethodRef(ClassType, "getDeclaredField", <<StringType>>, FieldType)

m_get_method_name == MethodRef(MethodType, "getName", <<>>, StringType)

m_get_field_name_of_method ==
    MethodRef(MethodType, "getName", <<>>, StringType)

m_get_field_name == MethodRef(FieldType, "getName", <<>>, StringType)

m_for_name == MethodRef(ClassType, "forName", <<StringType>>, ClassType)

\* Callees that are none of the interned handles.
OtherObjectCallee == MethodRef(FooType, "make", <<>>, FooType)

OtherIntCallee == MethodRef(FooType, "count", <<>>, IntType)

OtherVoidCallee == MethodRef(FooType, "run", <<>>, VoidType)

-----------------------------------------------------------------------------
(* IRInstruction *)

Insn(op, dest, src0, src1, type, string, callee) ==
    [op |-> op, dest |-> dest, src0 |-> src0, src1 |-> src1, type |-> type,
     string |-> string, callee |-> callee]

LoadParamOps == {"load-param", "load-param-object", "load-param-wide"}

InvokeOps ==
    {"invoke-virtual", "invoke-static", "invoke-interface", "invoke-super",
     "invoke-direct"}

\* Opcodes that write a destination register of their own.
DestOps ==
    LoadParamOps \cup
    {"move-object", "move-result-object", "move-result-pseudo-object",
     "move-result", "move-wide", "const"}

\* Opcodes whose result is fetched by a following move-result or
\* move-result-pseudo instruction.
MoveResultOps ==
    InvokeOps \cup
    {"const-string", "const-class", "check-cast", "aget-object", "iget-object",
     "sget-object", "new-instance", "new-array", "filled-new-array", "div-int"}

dests_size(insn) == IF insn.op \in DestOps THEN 1 ELSE 0

dest_is_wide(insn) == insn.op \in {"load-param-wide", "move-wide"}

has_move_result(insn) == insn.op \in MoveResultOps

-----------------------------------------------------------------------------
(* Analyzer: the transfer function *)

\* update_non_string_input tagging the Class object as a reflective one.
update_non_string_input_reflective(current_state, insn, type) ==
    LET dest_reg == IF has_move_result(insn) THEN RESULT_REGISTER ELSE insn.dest
    IN  IF type = get_class_type
        THEN set(current_state, dest_reg, Constant(ObjCLASS(NULL, "REFLECTION")))
        ELSE set(current_state, dest_reg, Constant(ObjOBJECT(type)))

\* update_non_string_input building the Class object from its kind alone,
\* which leaves its source unset.
update_non_string_input_no_source(current_state, insn, type) ==
    LET dest_reg == IF has_move_result(insn) THEN RESULT_REGISTER ELSE insn.dest
    IN  IF type = get_class_type
        THEN set(current_state, dest_reg,
                 Constant(ObjElement("CLASS", NULL, NULL)))
        ELSE set(current_state, dest_reg, Constant(ObjOBJECT(type)))

update_non_string_input(current_state, insn, type) ==
    LET dest_reg == IF has_move_result(insn) THEN RESULT_REGISTER ELSE insn.dest
    IN  IF type = get_class_type
        THEN set(current_state, dest_reg,
                 Constant(ObjCLASS(NULL, "NON_REFLECTION")))
        ELSE set(current_state, dest_reg, Constant(ObjOBJECT(type)))

update_return_object(current_state, insn) ==
    LET callee == insn.callee
        return_type == callee.rtype
    IN  IF is_void(return_type) \/ ~is_object(return_type)
        THEN current_state
        ELSE update_non_string_input(current_state, insn, return_type)

\* default_semantics clobbering one register whatever the width.
default_semantics_narrow(insn, current_state) ==
    LET s1 == IF dests_size(insn) > 0
              THEN set(current_state, insn.dest, Top)
              ELSE current_state
    IN  IF has_move_result(insn) THEN set(s1, RESULT_REGISTER, Top) ELSE s1

default_semantics(insn, current_state) ==
    LET s1 == IF dests_size(insn) > 0
              THEN LET s0 == set(current_state, insn.dest, Top)
                   IN  IF dest_is_wide(insn)
                       THEN set(s0, insn.dest + 1, Top)
                       ELSE s0
              ELSE current_state
    IN  IF has_move_result(insn) THEN set(s1, RESULT_REGISTER, Top) ELSE s1

\* reg is the index of the source operand: 0 -> src0, 1 -> src1.
src(insn, reg) == IF reg = 0 THEN insn.src0 ELSE insn.src1

\* get_dex_string_from_insn without the test that the constant is a STRING.
get_dex_string_from_insn_any_kind(current_state, insn, reg) ==
    LET element_name == get_constant(get(current_state, src(insn, reg)))
    IN  IF element_name # None THEN element_name.dex_string ELSE NULL

get_dex_string_from_insn(current_state, insn, reg) ==
    LET element_name == get_constant(get(current_state, src(insn, reg)))
    IN  IF element_name # None /\ element_name.kind = "STRING"
        THEN element_name.dex_string
        ELSE NULL

process_virtual_call(insn, receiver, current_state) ==
    LET callee == insn.callee
        generic == update_return_object(current_state, insn)
    IN  CASE receiver.kind = "OBJECT" ->
                 IF callee = m_get_class
                 THEN set(current_state, RESULT_REGISTER,
                          Constant(ObjCLASS(receiver.dex_type, "REFLECTION")))
                 ELSE generic
          [] receiver.kind = "STRING" ->
                 IF callee = m_get_class
                 THEN set(current_state, RESULT_REGISTER,
                          Constant(ObjCLASS(get_string_type, "REFLECTION")))
                 ELSE generic
          [] receiver.kind = "CLASS" ->
                 LET element_kind ==
                         IF callee = m_get_method \/ callee = m_get_declared_method
                         THEN "METHOD"
                         ELSE IF callee \in m_ctor_lookup_vmethods
                         THEN "METHOD"
                         ELSE "FIELD"
                     element_name ==
                         IF callee = m_get_method \/ callee = m_get_declared_method
                         THEN get_dex_string_from_insn(current_state, insn, 1)
                         ELSE IF callee \in m_ctor_lookup_vmethods
                         THEN StrInit
                         ELSE IF callee = m_get_field
                                 \/ callee = m_get_declared_field
                         THEN get_dex_string_from_insn(current_state, insn, 1)
                         ELSE NULL
                 IN  IF element_name = NULL
                     THEN generic
                     ELSE set(current_state, RESULT_REGISTER,
                              Constant(ObjElement(element_kind, callee.cls,
                                                  element_name)))
          [] receiver.kind \in {"FIELD", "METHOD"} ->
                 IF (receiver.kind = "FIELD" /\ callee = m_get_field_name)
                    \/ (receiver.kind = "METHOD" /\ callee = m_get_method_name)
                 THEN set(current_state, RESULT_REGISTER,
                          Constant(ObjSTRING(receiver.dex_string)))
                 ELSE generic
          [] OTHER -> generic

\* The parameter instructions clobbered like any other instruction.
analyze_load_param_clobbering(insn, current_state) ==
    default_semantics(insn, current_state)

\* The IOPCODE_LOAD_PARAM_* case: the parameters were analysed when the
\* initial environment was built, nothing is done here.
analyze_load_param(insn, current_state) == current_state

analyze_instruction(insn, current_state) ==
    CASE insn.op \in LoadParamOps -> analyze_load_param(insn, current_state)
      [] insn.op = "move-object" ->
             set(current_state, insn.dest, get(current_state, insn.src0))
      [] insn.op \in {"move-result-pseudo-object", "move-result-object"} ->
             set(current_state, insn.dest, get(current_state, RESULT_REGISTER))
      [] insn.op = "const-string" ->
             set(current_state, RESULT_REGISTER,
                 Constant(ObjSTRING(insn.string)))
      [] insn.op = "const-class" ->
             set(current_state, RESULT_REGISTER,
                 Constant(ObjCLASS(insn.type, "REFLECTION")))
      [] insn.op = "check-cast" ->
             set(current_state, RESULT_REGISTER, get(current_state, insn.src0))
      [] insn.op = "aget-object" ->
             LET array_object == get_constant(get(current_state, insn.src0))
             IN  IF array_object # None
                    /\ array_object.dex_type # NULL
                    /\ is_array(array_object.dex_type)
                 THEN update_non_string_input(
                          current_state, insn,
                          get_array_component_type(array_object.dex_type))
                 ELSE default_semantics(insn, current_state)
      [] insn.op \in {"iget-object", "sget-object"} ->
             update_non_string_input(current_state, insn, insn.type)
      [] insn.op \in {"new-instance", "new-array", "filled-new-array"} ->
             set(current_state, RESULT_REGISTER,
                 Constant(ObjOBJECT(insn.type)))
      [] insn.op = "invoke-virtual" ->
             LET receiver == get_constant(get(current_state, insn.src0))
             IN  IF receiver = None
                 THEN update_return_object(current_state, insn)
                 ELSE process_virtual_call(insn, receiver, current_state)
      [] insn.op = "invoke-static" ->
             LET class_name == get_constant(get(current_state, insn.src0))
             IN  IF insn.callee = m_for_name
                    /\ class_name # None
                    /\ class_name.kind = "STRING"
                 THEN set(current_state, RESULT_REGISTER,
                          Constant(ObjCLASS(
                              external_to_internal(class_name.dex_string),
                              "REFLECTION")))
                 ELSE update_return_object(current_state, insn)
      [] insn.op \in {"invoke-interface", "invoke-super", "invoke-direct"} ->
             update_return_object(current_state, insn)
      [] OTHER -> default_semantics(insn, current_state)

-----------------------------------------------------------------------------
(* DexMethod: the part of a method the seeding reads *)

\* args lists the declared argument types (get_proto()->get_args()).
Header(static, cls, args) == [is_static |-> static, cls |-> cls, args |-> args]

is_static(m) == m.is_static

\* The cursor of the seeding scan of Analyzer::run: the environment built so
\* far, the position of sig_it in the signature (1-based; Len + 1 is end()),
\* first_param, and whether the scan is still going, has left the loop, or
\* has hit the fatal assertion.
Cursor(env, sig_it, first_param, status) ==
    [env |-> env, sig_it |-> sig_it, first_param |-> first_param,
     status |-> status]

\* The loop body without the `this` case: every object parameter takes the
\* next type of the signature.
seed_instruction_no_this(m, insn, c) ==
    CASE insn.op = "load-param-object" ->
             IF c.sig_it > Len(m.args)
             THEN Cursor(c.env, c.sig_it, c.first_param, "fatal")
             ELSE Cursor(update_non_string_input(c.env, insn, m.args[c.sig_it]),
                         c.sig_it + 1, c.first_param, "scan")
      [] insn.op \in {"load-param", "load-param-wide"} ->
             Cursor(default_semantics(insn, c.env), c.sig_it, c.first_param,
                    "scan")
      [] OTHER -> Cursor(c.env, c.sig_it, c.first_param, "done")

\* One iteration of the loop over the entry block in Analyzer::run.
\* Reading *sig_it at end() is followed by always_assert(sig_it++ != end()),
\* which aborts: every outcome of that read ends the process.
seed_instruction(m, insn, c) ==
    CASE insn.op = "load-param-object" ->
             IF c.first_param /\ ~is_static(m)
             THEN Cursor(update_non_string_input(c.env, insn, m.cls),
                         c.sig_it, FALSE, "scan")
             ELSE IF c.sig_it > Len(m.args)
             THEN Cursor(c.env, c.sig_it, c.first_param, "fatal")
             ELSE Cursor(update_non_string_input(c.env, insn, m.args[c.sig_it]),
                         c.sig_it + 1, c.first_param, "scan")
      [] insn.op \in {"load-param", "load-param-wide"} ->
             Cursor(default_semantics(insn, c.env), c.sig_it, c.first_param,
                    "scan")
      [] OTHER -> Cursor(c.env, c.sig_it, c.first_param, "done")

RECURSIVE seed_from(_, _, _, _)
seed_from(m, insns, i, c) ==
    IF i > Len(insns) \/ c.status # "scan"
    THEN c
    ELSE seed_from(m, insns, i + 1, seed_instruction(m, insns[i], c))

\* Analyzer::run up to the label done: the cursor the scan ends with.
seed(m, entry_insns) ==
    seed_from(m, entry_insns, 1, Cursor(EnvTop, 1, TRUE, "scan"))

-----------------------------------------------------------------------------
(* Input sets of the transfer harness *)

TStrings == {StrBar, StrDoIt}

TValues ==
    {Top,
     Constant(ObjOBJECT(FooType)),
     Constant(ObjOBJECT(ArrayOf(ClassType))),
     Constant(ObjSTRING(StrBar)),
     Constant(ObjCLASS(FooType, "REFLECTION")),
     Constant(ObjCLASS(NULL, "NON_REFLECTION")),
     Constant(ObjElement("FIELD", ClassType, StrDoIt)),
     Constant(ObjElement("METHOD", ClassType, StrDoIt))}

TEnvs == [AllRegs -> TValues] \cup {EnvBottom}

VirtualCallees ==
    {m_get_class, m_get_method, m_get_declared_method, m_get_field,
     m_get_declared_field, m_get_method_name, m_get_field_name,
     OtherObjectCallee, OtherIntCallee, OtherVoidCallee}
    \cup m_ctor_lookup_vmethods

StaticCallees ==
    {m_for_name, OtherObjectCallee, OtherIntCallee, OtherVoidCallee}

FieldTypes == {FooType, ClassType, StringType}

\* Operand registers of two-operand instructions.
OperandPairs == {<<0, 1>>, <<1, 0>>, <<0, 0>>}

TInsns ==
    {Insn(op, d, NoReg, NoReg, NULL, NULL, NoMethod) :
        op \in {"load-param", "load-param-object", "move-result-object",
                "move-result-pseudo-object", "move-result", "const"},
        d \in Regs}
    \cup {Insn(op, d, NoReg, NoReg, NULL, NULL, NoMethod) :
            op \in {"load-param-wide"}, d \in {r \in Regs : r + 1 \in Regs}}
    \cup {Insn("move-wide", p[1], p[2], NoReg, NULL, NULL, NoMethod) :
            p \in {q \in OperandPairs : q[1] + 1 \in Regs}}
    \cup {Insn("move-object", p[1], p[2], NoReg, NULL, NULL, NoMethod) :
            p \in OperandPairs}
    \cup {Insn("const-string", NoReg, NoReg, NoReg, NULL, s, NoMethod) :
            s \in TStrings}
    \cup {Insn(op, NoReg, NoReg, NoReg, t, NULL, NoMethod) :
            op \in {"const-class", "new-instance"}, t \in {FooType}}
    \cup {Insn(op, NoReg, 0, NoReg, ArrayOf(FooType), NULL, NoMethod) :
            op \in {"new-array", "filled-new-array"}}
    \cup {Insn("check-cast", NoReg, s, NoReg, FooType, NULL, NoMethod) :
            s \in Regs}
    \cup {Insn("aget-object", NoReg, p[1], p[2], NULL, NULL, NoMethod) :
            p \in OperandPairs}
    \cup {Insn(op, NoReg, 0, NoReg, t, NULL, NoMethod) :
            op \in {"iget-object", "sget-object"}, t \in FieldTypes}
    \cup {Insn("invoke-virtual", NoReg, p[1], p[2], NULL, NULL, c) :
            p \in OperandPairs, c \in VirtualCallees}
    \cup {Insn("invoke-static", NoReg, s, NoReg, NULL, NULL, c) :
            s \in {0, 1}, c \in StaticCallees}
    \cup {Insn(op, NoReg, 0, NoReg, NULL, NULL, c) :
            op \in {"invoke-interface", "invoke-super", "invoke-direct"},
            c \in {OtherObjectCallee, OtherIntCallee, OtherVoidCallee}}
    \cup {Insn(op, NoReg, 0, 1, NULL, NULL, NoMethod) :
            op \in {"div-int", "return-void"}}

THeaders ==
    {Header(TRUE, FooType, <<>>),
     Header(FALSE, FooType, <<>>),
     Header(TRUE, FooType, <<ClassType>>),
     Header(FALSE, FooType, <<StringType, ClassType>>)}

\* Cursors the scan can be in when it meets a parameter instruction:
\* first_param is cleared only by the `this` parameter of a non-static method.
TCursors(m, env) ==
    {Cursor(env, i, f, "scan") :
        i \in 1 .. (Len(m.args) + 1),
        f \in IF is_static(m) THEN {TRUE} ELSE {FALSE}}
    \cup IF is_static(m) THEN {} ELSE {Cursor(env, 1, TRUE, "scan")}

\* Environments the seeding scan can have built: object parameters and Top.
IsSeedEnv(env) ==
    /\ env[RESULT_REGISTER] = Top
    /\ \A r \in Regs :
          \/ env[r] = Top
          \/ env[r].obj.kind = "OBJECT"
          \/ env[r] = Constant(ObjCLASS(NULL, "NON_REFLECTION"))

NoCtx == [m |-> Header(TRUE, NULL, <<>>), c |-> Cursor(EnvTop, 0, FALSE, "none")]

NoInsn == Insn("none", NoReg, NoReg, NoReg, NULL, NULL, NoMethod)

-----------------------------------------------------------------------------
(* Methods and their control-flow graphs *)

\* blocks[b] is the instruction sequence of block b, in program order; block 1
\* is the entry block; succs[b] is the set of successors of b.
Method(has_code, hdr, blocks, succs) ==
    [has_code |-> has_code, is_static |-> hdr.is_static, cls |-> hdr.cls,
     args |-> hdr.args, blocks |-> blocks, succs |-> succs,
     registers_size |-> NumRegs]

Blocks(m) == 1 .. Len(m.blocks)

Preds(m, b) == {p \in Blocks(m) : b \in m.succs[p]}

\* An instruction's identity (IRInstruction*) is its block and position.
InsnIds(m) ==
    UNION {{<<b, i>> : i \in 1 .. Len(m.blocks[b])} : b \in Blocks(m)}

InsnAt(m, id) == m.blocks[id[1]][id[2]]

\* An instruction of some other method.
ForeignInsn == <<0, 0>>

RECURSIVE ProgramOrderFrom(_, _)
ProgramOrderFrom(m, b) ==
    IF b > Len(m.blocks) THEN <<>>
    ELSE [i \in 1 .. Len(m.blocks[b]) |-> <<b, i>>] \o ProgramOrderFrom(m, b + 1)

\* InstructionIterable(code): the instruction identities in program order.
ProgramOrder(m) == ProgramOrderFrom(m, 1)

-----------------------------------------------------------------------------
(* The methods analysed *)

MoveResult(op, d) == Insn(op, d, NoReg, NoReg, NULL, NULL, NoMethod)

\* v0 <- "com.foo.Bar"
BodyStrBar ==
    <<Insn("const-string", NoReg, NoReg, NoReg, NULL, StrBar, NoMethod),
      MoveResult("move-result-pseudo-object", 0)>>

\* v0 <- "doIt"
BodyStrDoIt ==
    <<Insn("const-string", NoReg, NoReg, NoReg, NULL, StrDoIt, NoMethod),
      MoveResult("move-result-pseudo-object", 0)>>

\* v1 <- Foo.class
BodyConstClass ==
    <<Insn("const-class", NoReg, NoReg, NoReg, FooType, NULL, NoMethod),
      MoveResult("move-result-pseudo-object", 1)>>

\* v1 <- Class.forName(v0)
BodyForName ==
    <<Insn("invoke-static", NoReg, 0, NoReg, NULL, NULL, m_for_name),
      MoveResult("move-result-object", 1)>>

\* v1 <- v1.getDeclaredMethod(v0, ...)
BodyGetMethod ==
    <<Insn("invoke-virtual", NoReg, 1, 0, NULL, NULL, m_get_declared_method),
      MoveResult("move-result-object", 1)>>

\* Foo.count(), an int whose value is dropped
BodyCallInt ==
    <<Insn("invoke-static", NoReg, 0, NoReg, NULL, NULL, OtherIntCallee)>>

\* v1 <- v0.getClass()
BodyGetClass ==
    <<Insn("invoke-virtual", NoReg, 0, NoReg, NULL, NULL, m_get_class),
      MoveResult("move-result-object", 1)>>

\* v0 <- v1.getDeclaredMethod(v0, ...)
BodyGetMethodOverName ==
    <<Insn("invoke-virtual", NoReg, 1, 0, NULL, NULL, m_get_declared_method),
      MoveResult("move-result-object", 0)>>

\* A loop that looks a method up again on every round: the entry block leaves
\* the handle of an unknown lookup in v0 and Foo.class in v1, the loop names
\* the method, looks it up into v0 and replaces v1.
RelookupLoop ==
    <<BodyGetMethodOverName \o BodyConstClass,
      BodyStrDoIt,
      BodyGetMethodOverName \o BodyForName,
      BodyCallInt>>

Bodies ==
    {BodyStrBar, BodyStrDoIt, BodyConstClass, BodyForName, BodyGetMethod,
     BodyCallInt}

\* The bodies of the last block.
LastBodies == {BodyGetMethod, BodyCallInt}

\* Straight line, diamond, a loop over blocks 2 and 3, a loop back to the
\* entry block, a branch around block 2.
Shapes ==
    {<<{2}, {3}, {4}, {}>>,
     <<{2, 3}, {3}, {4}, {}>>,
     <<{2, 3}, {4}, {4}, {}>>,
     <<{2}, {3}, {2, 4}, {}>>,
     <<{2}, {1, 3}, {4}, {}>>}

\* The parameter instructions the signature asks for, one register each.
RECURSIVE load_params_from(_, _, _)
load_params_from(types, i, reg) ==
    IF i > Len(types) THEN <<>>
    ELSE LET op == IF is_object(types[i]) THEN "load-param-object"
                   ELSE IF types[i] = LongType THEN "load-param-wide"
                   ELSE "load-param"
         IN  <<MoveResult(op, reg)>> \o load_params_from(types, i + 1, reg + 1)

load_params(hdr) ==
    IF hdr.is_static THEN load_params_from(hdr.args, 1, 0)
    ELSE <<MoveResult("load-param-object", 0)>> \o load_params_from(hdr.args, 1, 1)

StaticNoArgs == Header(TRUE, FooType, <<>>)

Headers ==
    {Header(FALSE, FooType, <<>>),
     Header(TRUE, FooType, <<ClassType>>),
     Header(FALSE, FooType, <<StringType>>),
     Header(TRUE, FooType, <<FooType, ClassType>>),
     Header(TRUE, FooType, <<IntType, FooType>>)}

NoCodeMethod == Method(FALSE, StaticNoArgs, <<>>, <<>>)

Methods ==
    {Method(TRUE, StaticNoArgs, bs \o <<last>>, sh) :
        bs \in [1 .. 3 -> Bodies], last \in LastBodies, sh \in Shapes}
    \cup {Method(TRUE, h, <<load_params(h) \o BodyGetClass, BodyForName>>,
                 <<{2}, {}>>) : h \in Headers}
    \cup {Method(TRUE, StaticNoArgs, RelookupLoop, <<{2}, {3}, {2, 4}, {}>>)}
    \cup {NoCodeMethod}

-----------------------------------------------------------------------------
(* Fixpoint engine and replay *)

\* BaseIRAnalyzer::analyze_node: the block's instructions in program order.
RECURSIVE analyze_from(_, _, _)
analyze_from(insns, i, state) ==
    IF i > Len(insns) THEN state
    ELSE analyze_from(insns, i + 1, analyze_instruction(insns[i], state))

analyze_node(m, b, state) == analyze_from(m.blocks[b], 1, state)

\* Edge propagation that overwrites the successor's entry state.
propagate_overwrite(entry, exit) == exit

\* Edge propagation: the exit state is joined into the successor's entry state.
\* Only the first state to arrive is kept.
propagate_first(entry, exit) == IF EnvIsBottom(entry) THEN exit ELSE entry

propagate(entry, exit) == EnvJoin(entry, exit)

\* populate_environments caching the state after the instruction's transfer.
RECURSIVE populate_after_from(_, _, _, _, _)
populate_after_from(m, b, i, current_state, envs) ==
    IF i > Len(m.blocks[b]) THEN envs
    ELSE LET id == <<b, i>>
             next_state == analyze_instruction(m.blocks[b][i], current_state)
             cached == IF id \in DOMAIN envs THEN envs
                       ELSE [x \in DOMAIN envs \cup {id} |->
                                IF x = id THEN next_state ELSE envs[x]]
         IN  populate_after_from(m, b, i + 1, next_state, cached)

populate_block_after(m, b, entry, envs) == populate_after_from(m, b, 1, entry, envs)

\* The loop body of populate_environments for one block: emplace keeps an
\* existing entry.
RECURSIVE populate_from(_, _, _, _, _)
populate_from(m, b, i, current_state, envs) ==
    IF i > Len(m.blocks[b]) THEN envs
    ELSE LET id == <<b, i>>
             cached == IF id \in DOMAIN envs THEN envs
                       ELSE [x \in DOMAIN envs \cup {id} |->
                                IF x = id THEN current_state ELSE envs[x]]
         IN  populate_from(m, b, i + 1,
                           analyze_instruction(m.blocks[b][i], current_state),
                           cached)

populate_block(m, b, entry, envs) == populate_from(m, b, 1, entry, envs)

-----------------------------------------------------------------------------
(* Queries *)

\* Analyzer::get_abstract_object
analyzer_get_abstract_object(envs, reg, insn) ==
    IF insn \notin DOMAIN envs THEN None
    ELSE get_constant(get(envs[insn], reg))

\* ReflectionAnalysis::get_abstract_object
get_abstract_object(analyzer, envs, reg, insn) ==
    IF ~analyzer THEN None
    ELSE analyzer_get_abstract_object(envs, reg, insn)

\* ReflectionAnalysis::get_reflection_site: the entry added to the map, if any.
get_reflection_site(envs, reg, insn) ==
    LET aobj == analyzer_get_abstract_object(envs, reg, insn)
    IN  IF aobj = None THEN {}
        ELSE IF is_reflection_output(aobj) THEN {<<reg, aobj>>}
        ELSE {}

\* The std::map built for one instruction, as its set of (register, object).
site_objects(m, envs, insn) ==
    UNION {get_reflection_site(envs, i, insn) : i \in 0 .. (m.registers_size - 1)}
    \cup get_reflection_site(envs, RESULT_REGISTER, insn)

RECURSIVE sites_from(_, _, _, _)
sites_from(m, envs, order, i) ==
    IF i > Len(order) THEN <<>>
    ELSE LET abstract_objects == site_objects(m, envs, order[i])
         IN  (IF abstract_objects # {}
              THEN <<[insn |-> order[i], objects |-> abstract_objects]>>
              ELSE <<>>)
             \o sites_from(m, envs, order, i + 1)

\* ReflectionAnalysis::get_reflection_sites for a method that has code.
get_reflection_sites(m, envs) == sites_from(m, envs, ProgramOrder(m), 1)

\* What dereferencing the null IRCode* of a method without code can do.
NullCodeOutcomes == {"crash", "returned"}

Query(op, reg, insn, obj, sites, found, outcome) ==
    [op |-> op, reg |-> reg, insn |-> insn, obj |-> obj, sites |-> sites,
     found |-> found, outcome |-> outcome]

NoQuery == Query("none", NoReg, ForeignInsn, None, <<>>, FALSE, "none")

-----------------------------------------------------------------------------
(* The analysis of one method: construction, then a query session *)

HarnessIdle ==
    /\ tPc = "off"
    /\ tInsn = NoInsn
    /\ tEnv = EnvTop
    /\ tCtx = NoCtx
    /\ tOut = EnvTop

Init ==
    /\ HarnessIdle
    /\ pc = "new"
    /\ method \in Methods
    /\ has_analyzer = FALSE
    /\ init_state = EnvTop
    /\ entry_states = <<>>
    /\ exit_states = <<>>
    /\ worklist = {}
    /\ m_environments = <<>>
    /\ replayed = 0
    /\ query = NoQuery

tvars == <<tPc, tInsn, tEnv, tCtx, tOut>>

\* ReflectionAnalysis::ReflectionAnalysis up to the call of Analyzer::run.
Construct ==
    /\ pc = "new"
    /\ IF ~method.has_code
       THEN /\ pc' = "ready"
            /\ has_analyzer' = FALSE
       ELSE /\ pc' = "run"
            /\ has_analyzer' = TRUE
    /\ UNCHANGED <<tvars, method, init_state, entry_states, exit_states,
                   worklist, m_environments, replayed, query>>

\* Analyzer::run up to the start of the fixpoint iteration.
Seed ==
    /\ pc = "run"
    /\ LET c == seed(method, method.blocks[1])
       IN  IF c.status = "fatal"
           THEN /\ pc' = "aborted"
                /\ UNCHANGED <<init_state, entry_states, exit_states, worklist>>
           ELSE /\ pc' = "fixpoint"
                /\ init_state' = c.env
                /\ entry_states' =
                       [b \in Blocks(method) |->
                           IF b = 1 THEN c.env ELSE EnvBottom]
                /\ exit_states' = [b \in Blocks(method) |-> EnvBottom]
                /\ worklist' = {1}
    /\ UNCHANGED <<tvars, method, has_analyzer, m_environments, replayed, query>>

\* One step of MonotonicFixpointIterator::run: a pending block is analysed
\* and its exit state propagated along its outgoing edges.
FixpointStep ==
    /\ pc = "fixpoint"
    /\ \E b \in worklist :
          LET exit == analyze_node(method, b, entry_states[b])
              joined == [s \in Blocks(method) |->
                            IF s \in method.succs[b]
                            THEN propagate(entry_states[s], exit)
                            ELSE entry_states[s]]
              grown == {s \in method.succs[b] : joined[s] # entry_states[s]}
          IN  /\ exit_states' = [exit_states EXCEPT ![b] = exit]
              /\ entry_states' = joined
              /\ worklist' = (worklist \ {b}) \cup grown
    /\ UNCHANGED <<tvars, pc, method, has_analyzer, init_state, m_environments,
                   replayed, query>>

\* The fixpoint iteration returns once no block is pending.
FixpointDone ==
    /\ pc = "fixpoint"
    /\ worklist = {}
    /\ pc' = "replay"
    /\ UNCHANGED <<tvars, method, has_analyzer, init_state, entry_states,
                   exit_states, worklist, m_environments, replayed, query>>

\* populate_environments, one block per step; the constructor returns after
\* the last block.
Populate ==
    /\ pc = "replay"
    /\ LET b == replayed + 1
       IN  /\ m_environments' =
                  populate_block(method, b, entry_states[b], m_environments)
           /\ replayed' = b
           /\ pc' = IF b = Len(method.blocks) THEN "ready" ELSE "replay"
    /\ UNCHANGED <<tvars, method, has_analyzer, init_state, entry_states,
                   exit_states, worklist, query>>

GetAbstractObject ==
    /\ pc = "ready"
    /\ \E reg \in AllRegs, insn \in InsnIds(method) \cup {ForeignInsn} :
          query' = Query("get_abstract_object", reg, insn,
                         get_abstract_object(has_analyzer, m_environments,
                                             reg, insn),
                         <<>>, FALSE, "returned")
    /\ pc' = "answered"
    /\ UNCHANGED <<tvars, method, has_analyzer, init_state, entry_states,
                   exit_states, worklist, m_environments, replayed>>

\* get_reflection_sites reads code->get_registers_size() and iterates the
\* code without testing it for null.
GetReflectionSites ==
    /\ pc = "ready"
    /\ IF method.has_code
       THEN /\ query' = Query("get_reflection_sites", NoReg, ForeignInsn, None,
                              get_reflection_sites(method, m_environments),
                              FALSE, "returned")
            /\ pc' = "answered"
       ELSE \E outcome \in NullCodeOutcomes :
               /\ query' = Query("get_reflection_sites", NoReg, ForeignInsn,
                                 None, <<>>, FALSE, outcome)
               /\ pc' = IF outcome = "crash" THEN "crashed" ELSE "answered"
    /\ UNCHANGED <<tvars, method, has_analyzer, init_state, entry_states,
                   exit_states, worklist, m_environments, replayed>>

HasFoundReflection ==
    /\ pc = "ready"
    /\ IF method.has_code
       THEN /\ query' = Query("has_found_reflection", NoReg, ForeignInsn, None,
                              <<>>,
                              get_reflection_sites(method, m_environments) # <<>>,
                              "returned")
            /\ pc' = "answered"
       ELSE \E outcome \in NullCodeOutcomes :
               /\ query' = Query("has_found_reflection", NoReg, ForeignInsn,
                                 None, <<>>, FALSE, outcome)
               /\ pc' = IF outcome = "crash" THEN "crashed" ELSE "answered"
    /\ UNCHANGED <<tvars, method, has_analyzer, init_state, entry_states,
                   exit_states, worklist, m_environments, replayed>>

\* The caller takes the answer; the analysis is ready for the next query.
QueryReturn ==
    /\ pc = "answered"
    /\ pc' = "ready"
    /\ query' = NoQuery
    /\ UNCHANGED <<tvars, method, has_analyzer, init_state, entry_states,
                   exit_states, worklist, m_environments, replayed>>

Next ==
    \/ Construct
    \/ Seed
    \/ FixpointStep
    \/ FixpointDone
    \/ Populate
    \/ GetAbstractObject
    \/ GetReflectionSites
    \/ HasFoundReflection
    \/ QueryReturn

Spec == Init /\ [][Next]_vars

\* The constructor runs to completion: it is one synchronous call.
FairSpec ==
    Spec /\ WF_vars(Construct) /\ WF_vars(Seed) /\ WF_vars(FixpointStep)
         /\ WF_vars(FixpointDone) /\ WF_vars(Populate)

-----------------------------------------------------------------------------
(* The transfer function and the seeding step on their own *)

AnalysisIdle ==
    /\ pc = "off"
    /\ method = NoCodeMethod
    /\ has_analyzer = FALSE
    /\ init_state = EnvTop
    /\ entry_states = <<>>
    /\ exit_states = <<>>
    /\ worklist = {}
    /\ m_environments = <<>>
    /\ replayed = 0
    /\ query = NoQuery

avars == <<pc, method, has_analyzer, init_state, entry_states, exit_states,
           worklist, m_environments, replayed, query>>

TransferInit ==
    /\ AnalysisIdle
    /\ tPc = "input"
    /\ tEnv \in TEnvs
    /\ tInsn = NoInsn
    /\ tCtx = NoCtx
    /\ tOut = EnvTop

\* analyze_instruction applied to one instruction in one environment.
AnalyzeInstruction ==
    /\ tPc = "input"
    /\ \E insn \in TInsns :
          /\ tInsn' = insn
          /\ tOut' = analyze_instruction(insn, tEnv)
    /\ tPc' = "analyzed"
    /\ UNCHANGED <<tEnv, tCtx, avars>>

\* One iteration of the seeding scan on a parameter instruction.
SeedParameter ==
    /\ tPc = "input"
    /\ IsSeedEnv(tEnv)
    /\ \E insn \in {i \in TInsns : i.op \in LoadParamOps}, m \in THeaders :
          \E c \in TCursors(m, tEnv) :
             /\ seed_instruction(m, insn, c).status = "scan"
             /\ tInsn' = insn
             /\ tCtx' = [m |-> m, c |-> c]
             /\ tOut' = seed_instruction(m, insn, c).env
    /\ tPc' = "seeded"
    /\ UNCHANGED <<tEnv, avars>>

TransferNext == AnalyzeInstruction \/ SeedParameter

TransferSpec == TransferInit /\ [][TransferNext]_vars

-----------------------------------------------------------------------------
(* Properties of the transfer function (checked under TransferSpec) *)

Analyzed == tPc = "analyzed" /\ tEnv # EnvBottom

Receiver == get_constant(tEnv[tInsn.src0])

NameArg == get_constant(tEnv[tInsn.src1])

NameLookups ==
    {m_get_method, m_get_declared_method, m_get_field, m_get_declared_field}

LookupKind(callee) ==
    IF callee \in {m_get_field, m_get_declared_field} THEN "FIELD" ELSE "METHOD"

\* C1: an invoke-virtual of getMethod / getDeclaredMethod / getField /
\* getDeclaredField on a receiver holding Class(T, _) with a String(n) name
\* argument leaves Method(T, n) (resp. Field(T, n)) in RESULT_REGISTER, T being
\* the type of the receiver's Class value.
C1_LookupCarriesReceiverType ==
    (/\ Analyzed
     /\ tInsn.op = "invoke-virtual"
     /\ tInsn.callee \in NameLookups
     /\ Receiver.kind = "CLASS"
     /\ NameArg.kind = "STRING")
    => tOut[RESULT_REGISTER] =
           Constant(ObjElement(LookupKind(tInsn.callee), Receiver.dex_type,
                               NameArg.dex_string))

\* The environments at or above env in the pointwise order.
Above(env) ==
    IF env = EnvBottom THEN TEnvs
    ELSE {[r \in AllRegs |-> IF r \in raised THEN Top ELSE env[r]] :
             raised \in SUBSET AllRegs}

\* The order Bottom < Constant < Top, constants compared structurally.
Below(a, b) == a.kind = "Bottom" \/ b.kind = "Top" \/ a = b

\* C3: analyze_instruction is monotone: for environments E below-or-equal E',
\* the result on E is below-or-equal the result on E', register by register.
C3_TransferMonotone ==
    tPc = "analyzed"
    => \A upper \in Above(tEnv) :
          \A r \in AllRegs :
             Below(tOut[r], analyze_instruction(tInsn, upper)[r])

\* C4: after an instruction that has a move-result (an invoke of a callee that
\* returns a value, or an instruction with a move-result-pseudo),
\* RESULT_REGISTER is Top or
\* what the instruction's rule derives: it does not depend on what
\* RESULT_REGISTER held before the instruction.
C4_ResultRegisterRewritten ==
    (/\ Analyzed
     /\ has_move_result(tInsn)
     /\ tInsn.op \in InvokeOps => ~is_void(tInsn.callee.rtype))
    => \A before \in TValues :
          analyze_instruction(
              tInsn, [tEnv EXCEPT ![RESULT_REGISTER] = before])[RESULT_REGISTER]
          = tOut[RESULT_REGISTER]

IsElement(d) == d.obj.kind \in {"FIELD", "METHOD"}

\* The instruction copies the binding of register from into register to.
Copies(insn, from, to) ==
    \/ insn.op = "move-object" /\ from = insn.src0 /\ to = insn.dest
    \/ /\ insn.op \in {"move-result-object", "move-result-pseudo-object"}
       /\ from = RESULT_REGISTER
       /\ to = insn.dest
    \/ insn.op = "check-cast" /\ from = insn.src0 /\ to = RESULT_REGISTER

\* The instruction is a reflective lookup that derives the element d.
Looks(insn, env, d) ==
    /\ insn.op = "invoke-virtual"
    /\ get_constant(env[insn.src0]).kind = "CLASS"
    /\ \/ /\ insn.callee \in NameLookups
          /\ get_constant(env[insn.src1]).kind = "STRING"
          /\ d.obj.kind = LookupKind(insn.callee)
          /\ d.obj.dex_string = get_constant(env[insn.src1]).dex_string
       \/ /\ insn.callee \in m_ctor_lookup_vmethods
          /\ d.obj.kind = "METHOD"
          /\ d.obj.dex_string = StrInit

\* C5: a Field or Method constant that an instruction binds was already in
\* that register, is copied from another register, or is put in
\* RESULT_REGISTER by an invoke-virtual on a Class constant that is a name
\* lookup with a String constant name or a constructor lookup; the seeding
\* binds none. getDeclaredField on a Class constant with a name that is no
\* String constant binds Object(java.lang.reflect.Field), which is not a
\* reflection output.
C5_ElementsOnlyFromLookups ==
    /\ Analyzed =>
          \A r \in AllRegs :
             IsElement(tOut[r]) =>
                \/ tOut[r] = tEnv[r]
                \/ \E from \in AllRegs :
                      Copies(tInsn, from, r) /\ tEnv[from] = tOut[r]
                \/ r = RESULT_REGISTER /\ Looks(tInsn, tEnv, tOut[r])
    /\ tPc = "seeded" =>
          \A r \in AllRegs : IsElement(tOut[r]) => tOut[r] = tEnv[r]
    /\ (/\ Analyzed
        /\ tInsn.op = "invoke-virtual"
        /\ tInsn.callee = m_get_declared_field
        /\ Receiver.kind = "CLASS"
        /\ NameArg.kind # "STRING")
       => /\ tOut[RESULT_REGISTER] = Constant(ObjOBJECT(FieldType))
          /\ ~is_reflection_output(tOut[RESULT_REGISTER].obj)

C5_Witness ==
    /\ Analyzed
    /\ tInsn.op = "invoke-virtual"
    /\ tInsn.callee = m_get_declared_field
    /\ Receiver = ObjCLASS(FooType, "REFLECTION")
    /\ tEnv[tInsn.src1] = Top
    /\ tEnv[RESULT_REGISTER].obj.kind = "METHOD"
    /\ tOut[RESULT_REGISTER] = Constant(ObjOBJECT(FieldType))

UnknownClass == Constant(ObjCLASS(NULL, "NON_REFLECTION"))

\* The instruction takes the generic return-object binding.
GenericBinding(insn, env) ==
    \/ insn.op \in {"invoke-interface", "invoke-super", "invoke-direct"}
    \/ insn.op = "invoke-static"
       /\ ~(insn.callee = m_for_name
            /\ get_constant(env[insn.src0]).kind = "STRING")
    \/ insn.op = "invoke-virtual" /\ env[insn.src0].kind # "Value"

\* C6: const-class T binds Class(T, Reflection); forName on String(s) binds
\* Class(internal form of s, Reflection); a parameter, a field load, an array
\* element load or a generic return binding whose declared type is
\* java.lang.Class binds Class(unknown, NonReflection), which is not a
\* reflection output; so does forName on an argument that is no constant.
C6_ClassProvenance ==
    /\ (Analyzed /\ tInsn.op = "const-class")
       => tOut[RESULT_REGISTER] = Constant(ObjCLASS(tInsn.type, "REFLECTION"))
    /\ (/\ Analyzed
        /\ tInsn.op = "invoke-static"
        /\ tInsn.callee = m_for_name
        /\ Receiver.kind = "STRING")
       => /\ tOut[RESULT_REGISTER].obj.kind = "CLASS"
          /\ tOut[RESULT_REGISTER].obj.cls_source = "REFLECTION"
          /\ tOut[RESULT_REGISTER].obj.dex_type =
                 <<"L">> \o [i \in 1 .. Len(Receiver.dex_string) |->
                                IF Receiver.dex_string[i] = "." THEN "/"
                                ELSE Receiver.dex_string[i]] \o <<";">>
    /\ (/\ Analyzed
        /\ \/ tInsn.op \in {"iget-object", "sget-object"} /\ tInsn.type = ClassType
           \/ tInsn.op = "aget-object"
              /\ Receiver.kind = "OBJECT"
              /\ Receiver.dex_type = <<"[">> \o ClassType
           \/ GenericBinding(tInsn, tEnv) /\ tInsn.callee.rtype = ClassType)
       => /\ tOut[RESULT_REGISTER] = UnknownClass
          /\ ~is_reflection_output(tOut[RESULT_REGISTER].obj)
    /\ (/\ tPc = "seeded"
        /\ tInsn.op = "load-param-object"
        /\ ~(tCtx.c.first_param /\ ~tCtx.m.is_static)
        /\ tCtx.m.args[tCtx.c.sig_it] = ClassType)
       => tOut[tInsn.dest] = UnknownClass
    /\ (/\ Analyzed
        /\ tInsn.op = "invoke-static"
        /\ tInsn.callee = m_for_name
        /\ tEnv[tInsn.src0].kind # "Value")
       => /\ tOut[RESULT_REGISTER] = UnknownClass
          /\ ~is_reflection_output(tOut[RESULT_REGISTER].obj)

C6_Witness ==
    /\ Analyzed
    /\ tInsn.op = "invoke-static"
    /\ tInsn.callee = m_for_name
    /\ tEnv[tInsn.src0] = Top
    /\ tEnv[RESULT_REGISTER] = Constant(ObjCLASS(FooType, "REFLECTION"))
    /\ tOut[RESULT_REGISTER] = UnknownClass

-----------------------------------------------------------------------------
(* Properties of the analysis of a method (checked under Spec / FairSpec) *)

Constructed == pc \in {"ready", "answered"} /\ has_analyzer

\* C2: for a method without code the constructor completes and every query
\* answers without failing: get_abstract_object gives none, the reflection
\* sites are empty and has_found_reflection is false.
C2_NoCodeQueriesAnswer ==
    ~method.has_code =>
       /\ pc \in {"new", "ready", "answered"}
       /\ query.op # "none" =>
             /\ query.outcome = "returned"
             /\ query.obj = None
             /\ query.sites = <<>>
             /\ query.found = FALSE

\* The states that reach block b when the fixpoint has ended: the exit states
\* of its reachable predecessors and, for the entry block, the seeded state.
Incoming(b) ==
    ({exit_states[p] : p \in Preds(method, b)} \ {EnvBottom})
    \cup (IF b = 1 THEN {init_state} ELSE {})

\* The registers an instruction may rewrite.
Written(insn) ==
    (IF insn.op \in DestOps THEN {insn.dest} ELSE {})
    \cup (IF insn.op \in {"load-param-wide", "move-wide"}
          THEN {insn.dest + 1} ELSE {})
    \cup (IF insn.op \in MoveResultOps THEN {RESULT_REGISTER} ELSE {})

UnwrittenBefore(b, k, r) ==
    \A j \in 1 .. (k - 1) : r \notin Written(method.blocks[b][j])

ReportedAt(id, r) ==
    \E i \in 1 .. Len(get_reflection_sites(method, m_environments)) :
       LET site == get_reflection_sites(method, m_environments)[i]
       IN  site.insn = id /\ \E e \in site.objects : e[1] = r

\* C7: when two states reaching a block bind a register to two different
\* constants, the register is Top at every instruction of the block before it
\* is rewritten: get_abstract_object gives none and no reflection site names
\* it. When a block has two predecessors and every state reaching it binds
\* the register to the same constant, the block's entry state keeps that
\* constant.
C7_JoinAtMerge ==
    Constructed =>
       \A b \in Blocks(method), r \in AllRegs :
          LET reaching == {e[r] : e \in Incoming(b)}
          IN  /\ (\E x, y \in reaching :
                     x.kind = "Value" /\ y.kind = "Value" /\ x # y)
                 => \A k \in 1 .. Len(method.blocks[b]) :
                       UnwrittenBefore(b, k, r) =>
                          /\ m_environments[<<b, k>>][r] = Top
                          /\ get_abstract_object(has_analyzer, m_environments,
                                                 r, <<b, k>>) = None
                          /\ ~ReportedAt(<<b, k>>, r)
              /\ \A c \in reaching :
                    (/\ Cardinality(Preds(method, b)) = 2
                     /\ \A p \in Preds(method, b) : exit_states[p] # EnvBottom
                     /\ reaching = {c}
                     /\ c.kind = "Value")
                    => /\ entry_states[b][r] = c
                       /\ get_abstract_object(has_analyzer, m_environments,
                                              r, <<b, 1>>) = c.obj

\* The reflection-output predicate of the documentation.
ReflectionOutput(o) ==
    \/ o.kind \in {"FIELD", "METHOD"}
    \/ o.kind = "CLASS" /\ o.cls_source = "REFLECTION"

\* The registers the cached environment of an instruction binds to a
\* reflection output.
SiteRegs(id) ==
    {r \in (0 .. (method.registers_size - 1)) \cup {RESULT_REGISTER} :
        /\ m_environments[id][r].kind = "Value"
        /\ ReflectionOutput(m_environments[id][r].obj)}

Precedes(a, b) == a[1] < b[1] \/ (a[1] = b[1] /\ a[2] < b[2])

\* C8: get_reflection_sites returns, in program order, one entry for each
\* instruction whose cached environment binds a register below
\* registers_size or RESULT_REGISTER to a reflection output; the entry maps
\* exactly those registers to their constants; has_found_reflection is true
\* iff there is such an instruction.
C8_ReflectionSites ==
    /\ (has_analyzer /\ query.op = "get_reflection_sites")
       => /\ \A i \in 1 .. Len(query.sites) :
                /\ query.sites[i].insn \in InsnIds(method)
                /\ query.sites[i].objects # {}
                /\ query.sites[i].objects =
                       {<<r, m_environments[query.sites[i].insn][r].obj>> :
                           r \in SiteRegs(query.sites[i].insn)}
          /\ \A i, j \in 1 .. Len(query.sites) :
                i < j => Precedes(query.sites[i].insn, query.sites[j].insn)
          /\ \A id \in InsnIds(method) :
                SiteRegs(id) # {}
                => \E i \in 1 .. Len(query.sites) : query.sites[i].insn = id
    /\ (has_analyzer /\ query.op = "has_found_reflection")
       => (query.found <=> \E id \in InsnIds(method) : SiteRegs(id) # {})

C8_Witness ==
    /\ has_analyzer
    /\ query.op = "get_reflection_sites"
    /\ Len(query.sites) >= 2
    /\ \E i \in 1 .. Len(query.sites) :
          /\ Cardinality(query.sites[i].objects) = 2
          /\ \E e \in query.sites[i].objects :
                e[1] = RESULT_REGISTER /\ e[2].kind = "METHOD"
    /\ \E id \in InsnIds(method) : SiteRegs(id) = {}

\* The state before the k-th instruction of block b: the block's entry state
\* pushed through its first k - 1 instructions.
RECURSIVE StateBefore(_, _)
StateBefore(b, k) ==
    IF k = 1 THEN entry_states[b]
    ELSE analyze_instruction(method.blocks[b][k - 1], StateBefore(b, k - 1))

\* C9: the cache holds, for the k-th instruction of every block, the state
\* obtained from the block's fixpoint entry state by the transfers of the
\* first k - 1 instructions; get_abstract_object answers from it, and gives
\* none for an instruction that is not cached.
C9_CacheHoldsStateBefore ==
    /\ Constructed =>
          /\ DOMAIN m_environments = InsnIds(method)
          /\ \A id \in InsnIds(method) :
                m_environments[id] = StateBefore(id[1], id[2])
    /\ (has_analyzer /\ query.op = "get_abstract_object") =>
          query.obj = IF query.insn \in InsnIds(method)
                      THEN get_constant(
                               StateBefore(query.insn[1], query.insn[2])[query.reg])
                      ELSE None

C9_Witness ==
    /\ has_analyzer
    /\ query.op = "get_abstract_object"
    /\ query.insn \in InsnIds(method)
    /\ query.insn[2] = 2
    /\ InsnAt(method, query.insn).op = "move-result-object"
    /\ query.reg = RESULT_REGISTER
    /\ query.obj.kind = "METHOD"
    /\ get_constant(m_environments[<<query.insn[1], 1>>][RESULT_REGISTER])
          # query.obj

Ascends ==
    (pc = "fixpoint" /\ pc' = "fixpoint") =>
       \A b \in Blocks(method), r \in AllRegs :
          Below(entry_states[b][r], entry_states'[b][r])

\* C10: during the fixpoint iteration the entry state of every block only
\* ascends, register by register, along Bottom -> Constant -> Top, and the
\* iteration ends: the worklist becomes empty.
C10_FixpointTerminates ==
    /\ [][Ascends]_vars
    /\ (pc = "fixpoint") ~> (pc = "fixpoint" /\ worklist = {})

C10_Witness ==
    /\ pc = "fixpoint"
    /\ worklist = {}
    /\ Len(method.blocks) = 4
    /\ 2 \in method.succs[3]
    /\ entry_states[2][1] = Top
    /\ exit_states[1][1].kind = "Value"

-----------------------------------------------------------------------------
(* Determinism *)

Min(S) == CHOOSE x \in S : \A y \in S : x <= y

\* The entry states the iteration ends with when it always takes the pending
\* block of lowest number.
RECURSIVE LowestFirst(_, _, _)
LowestFirst(m, entry, wl) ==
    IF wl = {} THEN entry
    ELSE LET b == Min(wl)
             exit == analyze_node(m, b, entry[b])
             joined == [s \in Blocks(m) |->
                           IF s \in m.succs[b] THEN propagate(entry[s], exit)
                           ELSE entry[s]]
             grown == {s \in m.succs[b] : joined[s] # entry[s]}
         IN  LowestFirst(m, joined, (wl \ {b}) \cup grown)

RECURSIVE ReplayAll(_, _, _)
ReplayAll(m, entry, b) ==
    IF b > Len(m.blocks) THEN <<>>
    ELSE populate_block(m, b, entry[b], ReplayAll(m, entry, b + 1))

\* C11: the per-instruction environments of a method are the same whatever
\* order the iteration takes the pending blocks in: they are those of the
\* lowest-block-first order.
C11_OrderIndependent ==
    (pc = "ready" /\ has_analyzer) =>
       m_environments =
          ReplayAll(method,
                    LowestFirst(method,
                                [b \in Blocks(method) |->
                                    IF b = 1 THEN init_state ELSE EnvBottom],
                                {1}),
                    1)

-----------------------------------------------------------------------------
(* Constructor lookups and name round trips (checked under TransferSpec) *)

\* C12: an invoke-virtual of getConstructor / getDeclaredConstructor /
\* getConstructors / getDeclaredConstructors on a receiver holding Class(T, _)
\* of a known type T leaves Method(T, "<init>") in RESULT_REGISTER, whatever
\* the argument registers hold.
C12_ConstructorLookup ==
    (/\ Analyzed
     /\ tInsn.op = "invoke-virtual"
     /\ tInsn.callee \in m_ctor_lookup_vmethods
     /\ Receiver.kind = "CLASS"
     /\ Receiver.dex_type # NULL)
    => tOut[RESULT_REGISTER] =
           Constant(ObjElement("METHOD", Receiver.dex_type, StrInit))

GetName(d) == Insn("invoke-virtual", NoReg, d, d, NULL, NULL, m_get_field_name)

\* C13: Field.getName() on a receiver holding Field(T, n), and
\* Method.getName() on a receiver holding Method(T, n), leave String(n) in
\* RESULT_REGISTER; getDeclaredField(n) on a Class constant, moved to a
\* register, then Field.getName() on that register gives String(n) again; a
\* Field receiver with Method.getName, or the reverse, takes the generic
\* binding of the return type, Object(java.lang.String).
C13_NameRoundTrip ==
    (Analyzed /\ tInsn.op = "invoke-virtual") =>
       /\ ((Receiver.kind = "FIELD" /\ tInsn.callee = m_get_field_name)
            \/ (Receiver.kind = "METHOD" /\ tInsn.callee = m_get_method_name))
           => tOut[RESULT_REGISTER] = Constant(ObjSTRING(Receiver.dex_string))
       /\ ((Receiver.kind = "FIELD" /\ tInsn.callee = m_get_method_name)
            \/ (Receiver.kind = "METHOD" /\ tInsn.callee = m_get_field_name))
           => tOut[RESULT_REGISTER] = Constant(ObjOBJECT(StringType))
       /\ (/\ tInsn.callee \in {m_get_field, m_get_declared_field}
           /\ Receiver.kind = "CLASS"
           /\ NameArg.kind = "STRING")
           => \A d \in Regs :
                 LET moved == analyze_instruction(
                                  MoveResult("move-result-object", d), tOut)
                     named == analyze_instruction(GetName(d), moved)
                 IN  named[RESULT_REGISTER] =
                        Constant(ObjSTRING(NameArg.dex_string))

C13_Witness ==
    /\ Analyzed
    /\ tInsn.op = "invoke-virtual"
    /\ tInsn.callee = m_get_field_name
    /\ Receiver.kind = "FIELD"
    /\ tOut[RESULT_REGISTER] = Constant(ObjSTRING(StrDoIt))
    /\ tEnv[RESULT_REGISTER] # tOut[RESULT_REGISTER]

-----------------------------------------------------------------------------
(* getClass on a typed receiver (checked under TransferSpec) *)

GetClass(r) == Insn("invoke-virtual", NoReg, r, r, NULL, NULL, m_get_class)

SeedsThis ==
    /\ tPc = "seeded"
    /\ tInsn.op = "load-param-object"
    /\ tCtx.c.first_param
    /\ ~is_static(tCtx.m)

\* C14: the `this` parameter of a non-static method of class Foo is seeded
\* with Object(Foo), and getClass() on it, moved to a register, gives
\* Class(Foo, Reflection) there; getClass() on a register holding Object(T)
\* leaves Class(T, Reflection) in RESULT_REGISTER, on String(_) it leaves
\* Class(java.lang.String, Reflection), and on a register that holds no
\* constant it leaves Class(unknown, NonReflection).
C14_GetClassOnTypedReceiver ==
    /\ SeedsThis =>
          /\ tOut[tInsn.dest] = Constant(ObjOBJECT(tCtx.m.cls))
          /\ \A d \in Regs :
                analyze_instruction(
                    MoveResult("move-result-object", d),
                    analyze_instruction(GetClass(tInsn.dest), tOut))[d]
                = Constant(ObjCLASS(tCtx.m.cls, "REFLECTION"))
    /\ (Analyzed /\ tInsn.op = "invoke-virtual" /\ tInsn.callee = m_get_class)
       => /\ Receiver.kind = "OBJECT" =>
                tOut[RESULT_REGISTER] =
                   Constant(ObjCLASS(Receiver.dex_type, "REFLECTION"))
          /\ Receiver.kind = "STRING" =>
                tOut[RESULT_REGISTER] =
                   Constant(ObjCLASS(StringType, "REFLECTION"))
          /\ tEnv[tInsn.src0] = Top =>
                tOut[RESULT_REGISTER] =
                   Constant(ObjCLASS(NULL, "NON_REFLECTION"))

C14_Witness ==
    /\ SeedsThis
    /\ Len(tCtx.m.args) > 0
    /\ tEnv[tInsn.dest] = Top
    /\ tOut[tInsn.dest] = Constant(ObjOBJECT(FooType))

-----------------------------------------------------------------------------
(* Parameter seeding (checked under Spec) *)

Seeded == has_analyzer /\ pc \in {"fixpoint", "replay", "ready", "answered"}

\* The parameter instructions at the head of the entry block.
IsParameter(k) ==
    \A j \in 1 .. k : method.blocks[1][j].op \in LoadParamOps

\* The declared type of the formal the k-th parameter instruction stands for.
FormalType(k) ==
    LET i == IF is_static(method) THEN k ELSE k - 1
    IN  IF i = 0 THEN method.cls ELSE method.args[i]

\* C15: every load-param-object is seeded with the declared type of the
\* formal at its own position, `this` coming first in a non-static method:
\* Object(Ai), or Class(unknown, NonReflection) when Ai is java.lang.Class,
\* also when primitive parameters precede it.
C15_ParameterSeeding ==
    Seeded =>
       \A k \in 1 .. Len(method.blocks[1]) :
          (IsParameter(k) /\ method.blocks[1][k].op = "load-param-object")
          => init_state[method.blocks[1][k].dest] =
                IF FormalType(k) = ClassType
                THEN Constant(ObjCLASS(NULL, "NON_REFLECTION"))
                ELSE Constant(ObjOBJECT(FormalType(k)))

-----------------------------------------------------------------------------
(* The result of the iteration (checked under Spec) *)

Finished == has_analyzer /\ pc \in {"replay", "ready", "answered"}

\* C16: when the iteration has ended the entry states are a post-fixpoint:
\* the entry block's entry state is above or equal to the seeded environment
\* and, for every edge B -> S, B's entry state pushed through B's
\* instructions is below or equal to the entry state of S.
C16_PostFixpoint ==
    Finished =>
       /\ EnvLeq(init_state, entry_states[1])
       /\ \A b \in Blocks(method) :
             \A s \in method.succs[b] :
                EnvLeq(analyze_node(method, b, entry_states[b]),
                       entry_states[s])

C16_Witness ==
    /\ Finished
    /\ \E b \in Blocks(method) :
          \E s \in method.succs[b] :
             \E r \in AllRegs :
                /\ analyze_node(method, b, entry_states[b])[r].kind = "Value"
                /\ entry_states[s][r] = Top

-----------------------------------------------------------------------------
(* Parameter instructions inside the iteration (checked under Spec) *)

ParameterOps == {"load-param", "load-param-object", "load-param-wide"}

\* The positions of the entry block up to and including the first
\* instruction that is no parameter instruction.
ParameterPrefix ==
    {k \in 1 .. Len(method.blocks[1]) :
        \A j \in 1 .. (k - 1) : method.blocks[1][j].op \in ParameterOps}

\* C17: in the iteration and the replay a parameter instruction leaves the
\* environment unchanged, so for an entry block without incoming edges the
\* seeded bindings (an Object or Class(unknown, NonReflection) constant for
\* an object parameter, Top for a primitive one) are what
\* get_abstract_object reports up to the first instruction that is no
\* parameter instruction.
C17_ParametersKeptInLoop ==
    (Constructed /\ Preds(method, 1) = {}) =>
       \A k \in ParameterPrefix :
          /\ m_environments[<<1, k>>] = init_state
          /\ \A r \in Regs :
                get_abstract_object(has_analyzer, m_environments, r, <<1, k>>)
                = get_constant(init_state[r])
          /\ (k > 1 /\ method.blocks[1][k - 1].op = "load-param-object") =>
                get_abstract_object(has_analyzer, m_environments,
                                    method.blocks[1][k - 1].dest, <<1, k>>).kind
                \in {"OBJECT", "CLASS"}
          /\ (k > 1 /\ method.blocks[1][k - 1].op = "load-param") =>
                get_abstract_object(has_analyzer, m_environments,
                                    method.blocks[1][k - 1].dest, <<1, k>>)
                = None

C17_Witness ==
    /\ Constructed
    /\ Preds(method, 1) = {}
    /\ \E k \in ParameterPrefix :
          /\ k > 2
          /\ method.blocks[1][k].op \notin ParameterOps
          /\ \E r \in Regs :
                get_abstract_object(has_analyzer, m_environments, r, <<1, k>>)
                   = ObjOBJECT(FooType)
          /\ \E r \in Regs :
                get_abstract_object(has_analyzer, m_environments, r, <<1, k>>)
                   \notin {None, ObjOBJECT(FooType)}

-----------------------------------------------------------------------------
(* Default semantics (checked under TransferSpec) *)

\* The opcodes analyze_instruction has a rule of its own for.
RuleOps ==
    ParameterOps \cup InvokeOps \cup
    {"move-object", "move-result-pseudo-object", "move-result-object",
     "const-string", "const-class", "check-cast", "aget-object", "iget-object",
     "sget-object", "new-instance", "new-array", "filled-new-array"}

Clobbered(insn) ==
    (IF dests_size(insn) > 0 THEN {insn.dest} ELSE {})
    \cup (IF dests_size(insn) > 0 /\ dest_is_wide(insn)
          THEN {insn.dest + 1} ELSE {})
    \cup (IF has_move_result(insn) THEN {RESULT_REGISTER} ELSE {})

\* C18: an opcode without a rule of its own sets its destination register
\* to Top (and the next register when the destination is wide), sets
\* RESULT_REGISTER to Top when it has a move-result, and leaves every other
\* register as it was; without destination and move-result it leaves the
\* environment unchanged.
C18_DefaultSemantics ==
    (Analyzed /\ tInsn.op \notin RuleOps) =>
       \A r \in AllRegs :
          tOut[r] = IF r \in Clobbered(tInsn) THEN Top ELSE tEnv[r]

C18_Witness ==
    /\ Analyzed
    /\ tInsn.op = "move-wide"
    /\ tEnv[tInsn.dest].kind = "Value"
    /\ tEnv[tInsn.dest + 1].kind = "Value"
    /\ tEnv[RESULT_REGISTER].kind = "Value"
    /\ tOut[tInsn.dest + 1] = Top
    /\ tOut[RESULT_REGISTER] = tEnv[RESULT_REGISTER]

-----------------------------------------------------------------------------
(* Well-formed abstract values (checked under TransferSpec) *)

WellFormed(d) ==
    d.kind = "Value" =>
       /\ d.obj.kind = "CLASS" =>
             d.obj.cls_source \in {"REFLECTION", "NON_REFLECTION"}
       /\ d.obj.kind \in {"FIELD", "METHOD"} =>
             d.obj.dex_type # NULL /\ d.obj.dex_string # NULL

WellFormedEnv(env) == \A r \in AllRegs : WellFormed(env[r])

\* C19: the environments of the analysis hold only well-formed constants: a
\* Class constant has source Reflection or NonReflection, a Field or Method
\* constant has a type and a name. The analysis starts from the Top
\* environment, and no seeding step and no transfer of an instruction makes
\* an ill-formed constant out of an environment of well-formed ones.
C19_WellFormedValues ==
    /\ WellFormedEnv(EnvTop)
    /\ (tPc \in {"analyzed", "seeded"} /\ WellFormedEnv(tEnv))
       => WellFormedEnv(tOut)

C19_Witness ==
    /\ tPc = "analyzed"
    /\ tInsn.op = "invoke-virtual"
    /\ tInsn.callee \in m_ctor_lookup_vmethods
    /\ tEnv[tInsn.src0] = Constant(ObjCLASS(NULL, "NON_REFLECTION"))
    /\ tOut[RESULT_REGISTER].kind = "Value"
    /\ tOut[RESULT_REGISTER].obj.kind = "METHOD"

====
